---- MODULE Spec2Model ----
(***************************************************************************)
(* The optimize-render-validate loop of hr_breaker/orchestration.py:       *)
(* optimize_for_job, _render_and_extract and run_filters (parallel and     *)
(* sequential), with the external collaborators (rewrite agent, renderer,  *)
(* text extraction, evaluators, observer) as nondeterministic outcomes.    *)
(* Scores and thresholds are in hundredths (1.0 is 100).                   *)
(* Further specifications in the same module: SpecRetry                   *)
(* (utils/retry.py, run_with_retry), SpecModes (run_filters called in      *)
(* both modes on fixed evaluator outputs) and SpecCli (cli.py,             *)
(* _get_job_text and _read_multiline_input).                               *)
(***************************************************************************)
EXTENDS Integers, Sequences, FiniteSets, TLC

\* ---------------------------------------------------------------- bounds
MaxIterationsBound == 2
NumFilters == 2
MaxFailures == 5
MaxAttemptsArg == 3
MaxLines == 3

\* ------------------------------------------------------- program constants
FinalPriority == 100
ErrorScore == 0
DefaultThreshold == 50
RenderFailScore == 0
RenderFailThreshold == 100
SettingsRetryMaxAttempts == 5
EmptyLinesToStop == 2

\* -------------------------------------------------------------- the values
None == "None"
NoneValue == [none |-> TRUE]
Pending == [kind |-> "pending"]

PriorityValues == {1, FinalPriority}
HtmlOutputs == {"", "<h1>cv</h1>"}
SourceChecksum == "sha-of-source"
SourceContent == "resume text"
EvaluateOutcomes == {"pass", "fail", "raise"}
\* renderer.render ends by a document or by RenderError; extract_text_from_pdf
\* ends by the text or by an exception, of RenderError's type or of another.
RenderOutcomes == {"ok", "RenderError"}
ExtractOutcomes == {"ok", "RenderError", "OtherError"}

\* A registered evaluator class: name, priority and declared threshold.
FilterNames == <<"DataValidator", "LLMChecker", "KeywordMatcher",
                 "VectorSimilarityMatcher", "HallucinationChecker">>

FilterClass(j, p) ==
    [name |-> FilterNames[j], priority |-> p, threshold |-> 60 + j]

\* FilterRegistry.all(): the evaluators in registration order.
Registries ==
    { [j \in 1..NumFilters |-> FilterClass(j, ps[j])] :
        ps \in [1..NumFilters -> PriorityValues] }

\* ------------------------------------------------------------ data model
FilterResult(name, ok, score, threshold, issues, suggestions) ==
    [filter_name |-> name, passed |-> ok, score |-> score,
     threshold |-> threshold, issues |-> issues, suggestions |-> suggestions]

ValidationResult(results) == [results |-> results]

\* ValidationResult.passed
passed(v) == \A j \in 1..Len(v.results) : v.results[j].passed

OptimizedResume(html, iteration, checksum) ==
    [html |-> html, data |-> None, iteration |-> iteration,
     source_checksum |-> checksum, pdf_text |-> None, pdf_bytes |-> None]

IterationContext(iteration, original, last, validation) ==
    [iteration |-> iteration, original_resume |-> original,
     last_attempt |-> last, validation |-> validation]

\* What an evaluator that returns hands back: a result under its own name.
EvaluatorOutput(f, outcome) ==
    IF outcome = "pass"
    THEN FilterResult(f.name, TRUE, 90, f.threshold, <<>>, <<>>)
    ELSE FilterResult(f.name, FALSE, 30, f.threshold, <<"issue">>, <<"fix">>)

\* ------------------------------------------------------------- run_filters
\* getattr(f, "threshold", 0.5)
GetThreshold(f) ==
    IF "threshold" \in DOMAIN f THEN f.threshold ELSE DefaultThreshold

\* The synthetic result for an evaluator whose task raised (parallel mode).
ExceptionResult(f) ==
    FilterResult(f.name, FALSE, ErrorScore, GetThreshold(f),
                 <<"Filter error">>, <<"Check filter implementation">>)

\* f.evaluate(optimized, job, source): the evaluator and what it is given.
Invocation(f, cand, jb) ==
    [name |-> f.name, priority |-> f.priority, candidate |-> cand,
     job |-> jb]

\* tasks = [f.evaluate(optimized, job, source) for f in filter_instances]
CreateTasksMut(instances, cand, jb) ==
    LET early == SelectSeq(instances,
                           LAMBDA f : f.priority < FinalPriority)
    IN  [j \in 1..Len(early) |-> Invocation(early[j], cand, jb)]

CreateTasks(instances, cand, jb) ==
    [j \in 1..Len(instances) |-> Invocation(instances[j], cand, jb)]

\* asyncio.gather keeps each task's outcome at the task's own position.
GatherStoreMut(raw, j, r) ==
    LET first == CHOOSE k \in 1..Len(raw) :
                     /\ raw[k] = Pending
                     /\ \A m \in 1..(k - 1) : raw[m] # Pending
    IN  [raw EXCEPT ![first] = r]

GatherStore(raw, j, r) == [raw EXCEPT ![j] = r]

\* for f, result in zip(filter_instances, raw_results): ...
ConvertMut(f, raw) ==
    IF raw.kind = "exception"
    THEN FilterResult(f.name, TRUE, ErrorScore, GetThreshold(f),
                      <<>>, <<"Check filter implementation">>)
    ELSE raw.value

Convert(f, raw) ==
    IF raw.kind = "exception" THEN ExceptionResult(f) ELSE raw.value

Shorter(a, b) == IF Len(a) <= Len(b) THEN Len(a) ELSE Len(b)

AssembleResults(instances, raw) ==
    [j \in 1..Shorter(instances, raw) |-> Convert(instances[j], raw[j])]

\* sorted(filters, key=lambda f: f.priority): stable, ascending.
RECURSIVE InsertByPriority(_, _)
InsertByPriority(f, s) ==
    IF s = <<>> THEN <<f>>
    ELSE IF f.priority < Head(s).priority THEN <<f>> \o s
    ELSE <<Head(s)>> \o InsertByPriority(f, Tail(s))

sortedMut(s) == s

RECURSIVE sorted(_)
sorted(s) ==
    IF s = <<>> THEN <<>>
    ELSE InsertByPriority(s[Len(s)], sorted(SubSeq(s, 1, Len(s) - 1)))

\* The skip test of the sequential loop.
SkipFinalNonEmptyMut(f, results) ==
    f.priority >= FinalPriority /\ results # <<>>

SkipFinalAlwaysMut(f, results) == f.priority >= FinalPriority

SkipFinalMut(f, results) == FALSE

SkipFinal(f, results) ==
    /\ f.priority >= FinalPriority
    /\ results # <<>>
    /\ ~(\A j \in 1..Len(results) : results[j].passed)

\* The early-exit test of the sequential loop.
EarlyExitAnyMut(f, result) == ~result.passed

EarlyExitMut(f, result) == FALSE

EarlyExit(f, result) == ~result.passed /\ f.priority < FinalPriority

\* -------------------------------------------------------- optimize_for_job
\* range(max_iterations)
InRangeMut(idx, n) == idx <= n

InRangeShortMut(idx, n) == idx + 1 < n

InRange(idx, n) == idx < n

\* optimize_resume's prompt: the original resume and the job always, the
\* "Last Attempt" section with the refinement note if context.last_attempt is
\* truthy, the "Filter Results" section if context.validation is.
BuildPromptMut(context, jb) ==
    [original_resume |-> context.original_resume,
     job |-> jb,
     sections |-> IF context.validation # NoneValue
                  THEN {"Last Attempt", "Refinement Note", "Filter Results"}
                  ELSE {},
     last_attempt |-> context.last_attempt,
     filter_results |-> context.validation]

BuildPrompt(context, jb) ==
    LET hasLast == context.last_attempt # None /\ context.last_attempt # ""
        hasVerdict == context.validation # NoneValue
    IN  [original_resume |-> context.original_resume,
         job |-> jb,
         sections |->
             (IF hasLast THEN {"Last Attempt", "Refinement Note"} ELSE {})
             \cup (IF hasVerdict THEN {"Filter Results"} ELSE {}),
         last_attempt |-> IF hasLast THEN context.last_attempt ELSE None,
         filter_results |-> IF hasVerdict THEN context.validation
                            ELSE NoneValue]

\* optimize_resume's return value.
optimize_resume_mut(html, ctx, checksum) ==
    OptimizedResume(html, 0, checksum)

optimize_resume(html, ctx, checksum) ==
    OptimizedResume(html, ctx.iteration, checksum)

\* html if truthy, else the dumped data if truthy, else None.
LastAttemptOf(opt) ==
    IF opt.html # None /\ opt.html # "" THEN opt.html
    ELSE IF opt.data # None THEN opt.data
    ELSE None

\* What _render_and_extract hands to the renderer: the markup when it is not
\* None, else the structured content when it is not None, else nothing.
RenderInput(opt) ==
    IF opt.html # None THEN opt.html
    ELSE IF opt.data # None THEN opt.data
    ELSE None

\* _render_and_extract: the try block covers rendering and extraction, and
\* its only handler is "except RenderError".
render_and_extract_rebuild_mut(opt, renderOutcome, extractOutcome) ==
    LET raised ==
            IF opt.html = None /\ opt.data = None THEN "RenderError"
            ELSE IF renderOutcome # "ok" THEN renderOutcome
            ELSE IF extractOutcome # "ok" THEN extractOutcome
            ELSE None
    IN  IF raised = None
        THEN [kind |-> "return",
              value |-> [OptimizedResume(opt.html, 0, None)
                            EXCEPT !.pdf_text = "text", !.pdf_bytes = "pdf"]]
        ELSE IF raised = "RenderError"
        THEN [kind |-> "return", value |-> opt]
        ELSE [kind |-> "raise", exc |-> "ExtractError"]

render_and_extract_partial_mut(opt, renderOutcome, extractOutcome) ==
    LET raised ==
            IF opt.html = None /\ opt.data = None THEN "RenderError"
            ELSE IF renderOutcome # "ok" THEN renderOutcome
            ELSE IF extractOutcome # "ok" THEN extractOutcome
            ELSE None
    IN  IF raised = None
        THEN [kind |-> "return",
              value |-> [opt EXCEPT !.pdf_text = "text", !.pdf_bytes = "pdf"]]
        ELSE IF raised = "RenderError"
        THEN [kind |-> "return",
              value |-> IF renderOutcome = "ok"
                        THEN [opt EXCEPT !.pdf_bytes = "pdf"] ELSE opt]
        ELSE [kind |-> "raise", exc |-> "ExtractError"]

render_and_extract(opt, renderOutcome, extractOutcome) ==
    LET raised ==
            IF RenderInput(opt) = None THEN "RenderError"
            ELSE IF renderOutcome # "ok" THEN renderOutcome
            ELSE IF extractOutcome # "ok" THEN extractOutcome
            ELSE None
    IN  IF raised = None
        THEN [kind |-> "return",
              value |-> [opt EXCEPT !.pdf_text = "text", !.pdf_bytes = "pdf"]]
        ELSE IF raised = "RenderError"
        THEN [kind |-> "return", value |-> opt]
        ELSE [kind |-> "raise", exc |-> "ExtractError"]

\* The verdict synthesized when rendering failed.
RenderFailureVerdictMut ==
    ValidationResult(<<FilterResult("PDFRender", TRUE, RenderFailScore,
        RenderFailThreshold, <<"Failed to render resume to PDF">>,
        <<"Check resume data structure">>)>>)

RenderFailureVerdict ==
    ValidationResult(<<FilterResult("PDFRender", FALSE, RenderFailScore,
        RenderFailThreshold, <<"Failed to render resume to PDF">>,
        <<"Check resume data structure">>)>>)

\* on_iteration(i, optimized, validation): what the observer is handed.
ObserverArgsMut(idx, opt, v) ==
    [iteration |-> idx,
     optimized |-> [opt EXCEPT !.pdf_text = None, !.pdf_bytes = None],
     validation |-> v]

ObserverArgs(idx, opt, v) ==
    [iteration |-> idx, optimized |-> opt, validation |-> v]

\* if validation.passed: break
StopDecisionMut(v) == FALSE

StopDecisionAnyMut(v) == \E j \in 1..Len(v.results) : v.results[j].passed

StopDecision(v) == passed(v)

\* ---------------------------------------------------------- utils/retry.py
RETRYABLE_STATUS_CODES == {429, 500, 502, 503, 504}

StatusCodes == {400, 404} \cup RETRYABLE_STATUS_CODES

\* An exception: its class and its status_code attribute, which is an
\* integer, a value of another type, or absent.
IntStatus(n) == [t |-> "int", v |-> n]

Exc(cls, status) == [kind |-> "exc", cls |-> cls, status |-> status]

Exceptions ==
    { Exc(cls, IntStatus(n)) :
        cls \in {"ModelHTTPError", "RateLimitError"}, n \in StatusCodes }
    \cup { Exc("APIError", [t |-> "str"]), Exc("ValueError", [t |-> "absent"]) }

Value(v) == [kind |-> "value", v |-> v]

NoExc == [kind |-> "none"]

\* is_retryable
is_retryable_mut(exc) ==
    IF exc.cls = "ModelHTTPError"
    THEN exc.status.v \in RETRYABLE_STATUS_CODES
    ELSE FALSE

is_retryable(exc) ==
    IF exc.cls = "ModelHTTPError"
    THEN exc.status.v \in RETRYABLE_STATUS_CODES
    ELSE IF exc.status.t = "int"
    THEN exc.status.v \in RETRYABLE_STATUS_CODES
    ELSE FALSE

\* _max_attempts or settings.retry_max_attempts (0 stands for None and for 0:
\* both are falsy)
EffectiveMaxAttempts(arg) ==
    IF arg = 0 THEN SettingsRetryMaxAttempts ELSE arg

\* retry=retry_if_exception(is_retryable)
ShouldRetryMut(exc) == TRUE

ShouldRetry(exc) == is_retryable(exc)

\* stop=stop_after_attempt(max_attempts)
ShouldStopMut(attempt_number, n) == attempt_number + 1 >= n

ShouldStop(attempt_number, n) == attempt_number >= n

\* reraise=True: the last attempt's exception itself, not a RetryError.
OnStopMut(exc) == Exc("RetryError", [t |-> "absent"])

OnStop(exc) == exc

\* func(*args, **kwargs)
FuncArgs == [args |-> <<"arg1">>, kwargs |-> <<"key", "val">>]

\* ------------------------------------------------------------------ state
VARIABLES
    func_failures,   \* func fails on its first func_failures calls,
    func_error,      \*   raising func_error,
    func_then,       \*   and ends every later call by func_then
    arg_max_attempts,\* run_with_retry's _max_attempts
    max_attempts,    \* run_with_retry's local
    rpc,             \* position in run_with_retry
    attempt_number,  \* the retry loop's attempt number
    calls,           \* the arguments of each call of func so far
    waits,           \* backoff sleeps so far
    retry_outcome,   \* what run_with_retry returned or raised
    last_exc, last_retryable   \* is_retryable's last argument and result

retryVars == <<func_failures, func_error, func_then, arg_max_attempts,
               max_attempts, rpc, attempt_number, calls, waits,
               retry_outcome, last_exc, last_retryable>>

VARIABLES
    registry,        \* FilterRegistry.all()
    max_iterations, parallel, on_iteration, job, job_text,   \* arguments
    pc,              \* position in optimize_for_job / run_filters
    i,               \* loop index
    ctx,             \* the IterationContext, from its construction until
                     \* optimize_resume has consumed it
    optimized, validation, last_attempt,
    filters,         \* run_filters: filter_instances / sorted filters
    raw_results,     \* run_filters (parallel): gather's slots
    results, k,      \* run_filters (sequential): results so far, position
    exception,       \* the exception that left optimize_for_job, raisedAt
    raisedAt,
    returned,        \* the returned tuple
    broke,           \* the loop ended by break
    rewriteCalls, renderCalls, evalCalls, observerCalls, parseCalls,
    invoked,         \* the evaluate calls made for the current candidate
    outOfOrder,      \* a task completed before an earlier-registered one
    verdictIter,     \* iteration whose step assigned validation
    firstPass,       \* first iteration whose verdict passed
    observed,        \* the arguments of the current iteration's observer call
    prompt           \* optimize_resume's prompt, until the candidate is rendered

loopVars == <<registry, max_iterations, parallel, on_iteration, job, job_text,
          pc, i, ctx, optimized, validation, last_attempt, filters,
          raw_results, results, k, exception, raisedAt, returned, broke,
          rewriteCalls, renderCalls, evalCalls, observerCalls, parseCalls,
          invoked, outOfOrder, verdictIter, firstPass, observed,
          prompt>>

VARIABLES
    fixed_outputs,   \* what each evaluator returns, whenever it is asked
    mpc,             \* position in the two run_filters calls
    par_verdict,     \* what run_filters(parallel=True) returned
    seq_verdict      \* what run_filters(parallel=False) returned

modesVars == <<fixed_outputs, mpc, par_verdict, seq_verdict>>

VARIABLES
    job_input,       \* _get_job_text's argument
    path_kind,       \* what the file system holds at Path(job_input)
    stdin,           \* the lines waiting on standard input, then end of input
    cpc,             \* position in _get_job_text / _read_multiline_input
    scrapeCalls,     \* calls of scrape_job_posting
    scrape_outcome,  \* how the call ended
    launched,        \* click.launch opened the browser
    lines, empty_count,   \* _read_multiline_input's locals
    readCalls,       \* calls of input()
    cli_result       \* what _get_job_text returned or raised

VARIABLES
    warned,          \* the optimize command echoed its warning
    output_file,     \* the bytes written to the output path
    saved_record,    \* the record handed to pdf_storage.save_record
    cmd_result       \* how the optimize command ended

cmdVars == <<warned, output_file, saved_record, cmd_result>>

cliVars == <<job_input, path_kind, stdin, cpc, scrapeCalls, scrape_outcome,
             launched, lines, empty_count, readCalls, cli_result, cmdVars>>

vars == <<loopVars, retryVars, modesVars, cliVars>>

args == <<registry, max_iterations, parallel, on_iteration, job_text>>
locals == <<filters, raw_results, results, k>>
outcome == <<exception, raisedAt, returned>>
counters == <<rewriteCalls, renderCalls, evalCalls, observerCalls, parseCalls>>

JobInputs == { <<None, None>>, <<None, "posting text">>, <<"job", None>> }

\* run_with_retry is not running.
RetryIdle ==
    /\ func_failures = 0
    /\ func_error = NoExc
    /\ func_then = NoExc
    /\ arg_max_attempts = 0
    /\ max_attempts = 0
    /\ rpc = "idle"
    /\ attempt_number = 0
    /\ calls = <<>>
    /\ waits = 0
    /\ retry_outcome = NoExc
    /\ last_exc = NoExc
    /\ last_retryable = FALSE

\* No comparison of the two run_filters modes is running.
ModesIdle ==
    /\ fixed_outputs = NoneValue
    /\ mpc = "idle"
    /\ par_verdict = NoneValue
    /\ seq_verdict = NoneValue

\* The command line's job text acquisition is not running.
\* The optimize command has not come back from optimize_for_job.
CommandIdle ==
    /\ warned = FALSE
    /\ output_file = None
    /\ saved_record = NoneValue
    /\ cmd_result = NoneValue

CliIdle ==
    /\ CommandIdle
    /\ job_input = NoneValue
    /\ path_kind = None
    /\ stdin = <<>>
    /\ cpc = "idle"
    /\ scrapeCalls = 0
    /\ scrape_outcome = None
    /\ launched = FALSE
    /\ lines = <<>>
    /\ empty_count = 0
    /\ readCalls = 0
    /\ cli_result = NoneValue

\* optimize_for_job is entered: its arguments, except max_iterations.
LoopStart ==
    /\ RetryIdle
    /\ ModesIdle
    /\ CliIdle
    /\ registry \in Registries
    /\ parallel \in BOOLEAN
    /\ on_iteration \in BOOLEAN
    /\ \E ji \in JobInputs : job = ji[1] /\ job_text = ji[2]
    /\ pc = "start"
    /\ i = 0
    /\ ctx = NoneValue
    /\ optimized = NoneValue
    /\ validation = NoneValue
    /\ last_attempt = None
    /\ filters = <<>>
    /\ raw_results = <<>>
    /\ results = <<>>
    /\ k = 0
    /\ exception = None
    /\ raisedAt = None
    /\ returned = NoneValue
    /\ broke = FALSE
    /\ rewriteCalls = 0
    /\ renderCalls = 0
    /\ evalCalls = 0
    /\ observerCalls = 0
    /\ parseCalls = 0
    /\ invoked = <<>>
    /\ outOfOrder = FALSE
    /\ verdictIter = -1
    /\ firstPass = -1
    /\ observed = NoneValue
    /\ prompt = NoneValue

Init ==
    /\ LoopStart
    /\ max_iterations \in 1..MaxIterationsBound

\* max_iterations is any integer the caller can pass, 0 and negative ones
\* included.
InitAnyBudget ==
    /\ LoopStart
    /\ max_iterations \in -1..MaxIterationsBound

Raise(exc) ==
    /\ exception' = exc
    /\ raisedAt' = pc
    /\ pc' = "raised"
    /\ UNCHANGED returned

\* Assigning the iteration's verdict.
SetVerdict(v) ==
    /\ validation' = v
    /\ verdictIter' = i
    /\ firstPass' = IF firstPass = -1 /\ passed(v) THEN i ELSE firstPass

\* ---------------------------------------------------------------- actions
\* job is None and job_text is None: ValueError.
RaiseNoJob ==
    /\ pc = "start"
    /\ job = None /\ job_text = None
    /\ Raise("ValueError")
    /\ UNCHANGED <<retryVars, modesVars, cliVars, prompt, observed, invoked, args, job, i, ctx, optimized, validation, last_attempt,
                   locals, broke, counters, outOfOrder, verdictIter,
                   firstPass>>

\* job is None: job = await parse_job_posting(job_text).
ParseJob ==
    /\ pc = "start"
    /\ job = None /\ job_text # None
    /\ job' = "parsed job"
    /\ parseCalls' = parseCalls + 1
    /\ pc' = "for"
    /\ UNCHANGED <<retryVars, modesVars, cliVars, prompt, observed, invoked, args, i, ctx, optimized, validation, last_attempt,
                   locals, outcome, broke, rewriteCalls, renderCalls,
                   evalCalls, observerCalls, outOfOrder, verdictIter,
                   firstPass>>

\* A parsed job was supplied.
UseGivenJobParsesMut ==
    /\ pc = "start"
    /\ job # None
    /\ job' = "parsed job"
    /\ parseCalls' = parseCalls + 1
    /\ pc' = "for"
    /\ UNCHANGED <<retryVars, modesVars, cliVars, prompt, observed, invoked, args, i, ctx,
                   optimized, validation, last_attempt, locals, outcome, broke,
                   rewriteCalls, renderCalls, evalCalls, observerCalls,
                   outOfOrder, verdictIter, firstPass>>

UseGivenJob ==
    /\ pc = "start"
    /\ job # None
    /\ pc' = "for"
    /\ UNCHANGED <<retryVars, modesVars, cliVars, prompt, observed, invoked, args, job, i, ctx, optimized, validation, last_attempt,
                   locals, outcome, broke, counters, outOfOrder,
                   verdictIter, firstPass>>

\* for i in range(max_iterations): the next index exists.
ForNext ==
    /\ pc = "for"
    /\ InRange(i, max_iterations)
    /\ ctx' = IterationContext(i, SourceContent, last_attempt, validation)
    /\ pc' = "rewrite"
    /\ UNCHANGED <<retryVars, modesVars, cliVars, prompt, observed, invoked, args, job, i, optimized, validation, last_attempt,
                   locals, outcome, broke, counters, outOfOrder,
                   verdictIter, firstPass>>

\* for i in range(max_iterations): the range is used up.
ForExhausted ==
    /\ pc = "for"
    /\ ~InRange(i, max_iterations)
    /\ pc' = "return"
    /\ UNCHANGED <<retryVars, modesVars, cliVars, prompt, observed, invoked, args, job, i, ctx, optimized, validation, last_attempt,
                   locals, outcome, broke, counters, outOfOrder,
                   verdictIter, firstPass>>

\* optimized = await optimize_resume(...); last_attempt = ...
Rewrite ==
    /\ pc = "rewrite"
    /\ \E html \in HtmlOutputs :
         /\ optimized' = optimize_resume(html, ctx, SourceChecksum)
         /\ last_attempt' = LastAttemptOf(optimized')
    /\ ctx' = NoneValue
    /\ rewriteCalls' = rewriteCalls + 1
    /\ evalCalls' = 0
    /\ invoked' = <<>>
    /\ pc' = "render"
    /\ prompt' = BuildPrompt(ctx, job)
    /\ UNCHANGED <<retryVars, modesVars, cliVars, observed, args, job, i, validation, locals, outcome, broke,
                   renderCalls, observerCalls, parseCalls, outOfOrder,
                   verdictIter, firstPass>>

\* optimize_resume raises (retries exhausted or not retryable).
RewriteRaisesNotifyMut ==
    /\ pc = "rewrite"
    /\ rewriteCalls' = rewriteCalls + 1
    /\ observerCalls' = observerCalls + 1
    /\ Raise("RewriteError")
    /\ prompt' = BuildPrompt(ctx, job)
    /\ UNCHANGED <<retryVars, modesVars, cliVars, observed, invoked, args, job, i, ctx, optimized, validation,
                   last_attempt, locals, broke, renderCalls, evalCalls,
                   parseCalls, outOfOrder, verdictIter, firstPass>>

RewriteRaises ==
    /\ pc = "rewrite"
    /\ rewriteCalls' = rewriteCalls + 1
    /\ Raise("RewriteError")
    /\ prompt' = BuildPrompt(ctx, job)
    /\ UNCHANGED <<retryVars, modesVars, cliVars, observed, invoked, args, job, i, ctx, optimized, validation, last_attempt,
                   locals, broke, renderCalls, evalCalls, observerCalls,
                   parseCalls, outOfOrder, verdictIter, firstPass>>

\* optimized = _render_and_extract(optimized, renderer)
RenderAndExtract ==
    /\ pc = "render"
    /\ \E ro \in RenderOutcomes, eo \in ExtractOutcomes :
         LET res == render_and_extract(optimized, ro, eo)
         IN  /\ res.kind = "return"
             /\ optimized' = res.value
    /\ renderCalls' = renderCalls + 1
    /\ pc' = "validate"
    /\ prompt' = NoneValue
    /\ UNCHANGED <<retryVars, modesVars, cliVars, observed, invoked, args, job, i, ctx, validation, last_attempt, locals,
                   outcome, broke, rewriteCalls, evalCalls, observerCalls,
                   parseCalls, outOfOrder, verdictIter, firstPass>>

\* _render_and_extract lets an exception through.
RenderAndExtractRaises ==
    /\ pc = "render"
    /\ \E ro \in RenderOutcomes, eo \in ExtractOutcomes :
         LET res == render_and_extract(optimized, ro, eo)
         IN  /\ res.kind = "raise"
             /\ Raise(res.exc)
    /\ renderCalls' = renderCalls + 1
    /\ prompt' = NoneValue
    /\ UNCHANGED <<retryVars, modesVars, cliVars, observed, invoked, args, job, i, ctx, optimized, validation, last_attempt,
                   locals, broke, rewriteCalls, evalCalls, observerCalls,
                   parseCalls, outOfOrder, verdictIter, firstPass>>

\* optimized.pdf_text is None: the synthesized verdict.
SynthesizeRenderFailure ==
    /\ pc = "validate"
    /\ optimized.pdf_text = None
    /\ SetVerdict(RenderFailureVerdict)
    /\ pc' = "observer"
    /\ UNCHANGED <<retryVars, modesVars, cliVars, prompt, observed, invoked, args, job, i, ctx, optimized, last_attempt, locals,
                   outcome, broke, counters, outOfOrder>>

\* run_filters(parallel=True) up to the gather: every task is created.
StartParallel ==
    /\ pc = "validate"
    /\ optimized.pdf_text # None
    /\ parallel
    /\ filters' = registry
    /\ invoked' = CreateTasks(registry, optimized, job)
    /\ raw_results' = [j \in 1..Len(invoked') |-> Pending]
    /\ evalCalls' = Len(invoked')
    /\ outOfOrder' = FALSE
    /\ pc' = "gather"
    /\ UNCHANGED <<retryVars, modesVars, cliVars, prompt, observed, args, job, i, ctx, optimized, validation, last_attempt,
                   results, k, outcome, broke, rewriteCalls, renderCalls,
                   observerCalls, parseCalls, verdictIter, firstPass>>

\* One evaluator task completes, by a result or by an exception.
TaskCompletes ==
    /\ pc = "gather"
    /\ \E j \in 1..Len(raw_results), o \in EvaluateOutcomes :
         /\ raw_results[j] = Pending
         /\ raw_results' = GatherStore(raw_results, j,
                IF o = "raise"
                THEN [kind |-> "exception"]
                ELSE [kind |-> "result",
                      value |-> EvaluatorOutput(filters[j], o)])
         /\ outOfOrder' = (outOfOrder \/
                \E m \in 1..(j - 1) : raw_results[m] = Pending)
    /\ UNCHANGED <<retryVars, modesVars, cliVars, prompt, observed, invoked, args, job, pc, i, ctx, optimized, validation,
                   last_attempt, filters, results, k, outcome, broke,
                   counters, verdictIter, firstPass>>

\* gather returns; exceptions become failing results; run_filters returns.
ParallelReturn ==
    /\ pc = "gather"
    /\ \A j \in 1..Len(raw_results) : raw_results[j] # Pending
    /\ SetVerdict(ValidationResult(AssembleResults(filters, raw_results)))
    /\ filters' = <<>>
    /\ raw_results' = <<>>
    /\ pc' = "observer"
    /\ UNCHANGED <<retryVars, modesVars, cliVars, prompt, observed, invoked, args, job, i, ctx, optimized, last_attempt, results, k,
                   outcome, broke, counters, outOfOrder>>

\* run_filters(parallel=False) up to the loop.
StartSequential ==
    /\ pc = "validate"
    /\ optimized.pdf_text # None
    /\ ~parallel
    /\ filters' = sorted(registry)
    /\ results' = <<>>
    /\ k' = 1
    /\ pc' = "seq"
    /\ UNCHANGED <<retryVars, modesVars, cliVars, prompt, observed, invoked, args, job, i, ctx, optimized, validation, last_attempt,
                   raw_results, outcome, broke, counters, outOfOrder,
                   verdictIter, firstPass>>

\* A final check is skipped because an earlier result failed.
SeqSkip ==
    /\ pc = "seq"
    /\ k <= Len(filters)
    /\ SkipFinal(filters[k], results)
    /\ k' = k + 1
    /\ UNCHANGED <<retryVars, modesVars, cliVars, prompt, observed, invoked, args, job, pc, i, ctx, optimized, validation,
                   last_attempt, filters, raw_results, results, outcome,
                   broke, counters, outOfOrder, verdictIter, firstPass>>

\* result = await f.evaluate(...); results.append(result); maybe break.
SeqEvaluate ==
    /\ pc = "seq"
    /\ k <= Len(filters)
    /\ ~SkipFinal(filters[k], results)
    /\ \E o \in {"pass", "fail"} :
         LET result == EvaluatorOutput(filters[k], o)
         IN  /\ results' = Append(results, result)
             /\ k' = IF EarlyExit(filters[k], result)
                     THEN Len(filters) + 1 ELSE k + 1
    /\ invoked' = Append(invoked, Invocation(filters[k], optimized, job))
    /\ evalCalls' = evalCalls + 1
    /\ UNCHANGED <<retryVars, modesVars, cliVars, prompt, observed, args, job, pc, i, ctx, optimized, validation,
                   last_attempt, filters, raw_results, outcome, broke,
                   rewriteCalls, renderCalls, observerCalls, parseCalls,
                   outOfOrder, verdictIter, firstPass>>

\* f.evaluate raises: nothing in the sequential branch catches it.
SeqEvaluateRaises ==
    /\ pc = "seq"
    /\ k <= Len(filters)
    /\ ~SkipFinal(filters[k], results)
    /\ invoked' = Append(invoked, Invocation(filters[k], optimized, job))
    /\ evalCalls' = evalCalls + 1
    /\ Raise("EvaluatorError")
    /\ UNCHANGED <<retryVars, modesVars, cliVars, prompt, observed, args, job, i, ctx, optimized, validation, last_attempt,
                   locals, broke, rewriteCalls, renderCalls, observerCalls,
                   parseCalls, outOfOrder, verdictIter, firstPass>>

\* return ValidationResult(results=results)
SeqReturn ==
    /\ pc = "seq"
    /\ k > Len(filters)
    /\ SetVerdict(ValidationResult(results))
    /\ filters' = <<>>
    /\ results' = <<>>
    /\ k' = 0
    /\ pc' = "observer"
    /\ UNCHANGED <<retryVars, modesVars, cliVars, prompt, observed, invoked, args, job, i, ctx, optimized, last_attempt, raw_results,
                   outcome, broke, counters, outOfOrder>>

\* if on_iteration: on_iteration(i, optimized, validation) returns.
NotifyDeferredMut ==
    /\ pc = "observer"
    /\ on_iteration
    /\ pc' = "decide"
    /\ UNCHANGED <<retryVars, modesVars, cliVars, prompt, observed, invoked, args, job, i, ctx, optimized, validation,
                   last_attempt, locals, outcome, broke, counters,
                   outOfOrder, verdictIter, firstPass>>

Notify ==
    /\ pc = "observer"
    /\ on_iteration
    /\ observerCalls' = observerCalls + 1
    /\ pc' = "decide"
    /\ observed' = ObserverArgs(i, optimized, validation)
    /\ UNCHANGED <<retryVars, modesVars, cliVars, prompt, invoked, args, job, i, ctx, optimized, validation, last_attempt,
                   locals, outcome, broke, rewriteCalls, renderCalls,
                   evalCalls, parseCalls, outOfOrder, verdictIter,
                   firstPass>>

\* on_iteration raises: nothing catches it.
NotifyRaises ==
    /\ pc = "observer"
    /\ on_iteration
    /\ observerCalls' = observerCalls + 1
    /\ Raise("ObserverError")
    /\ observed' = ObserverArgs(i, optimized, validation)
    /\ UNCHANGED <<retryVars, modesVars, cliVars, prompt, invoked, args, job, i, ctx, optimized, validation, last_attempt,
                   locals, broke, rewriteCalls, renderCalls, evalCalls,
                   parseCalls, outOfOrder, verdictIter, firstPass>>

\* No observer was supplied.
SkipNotify ==
    /\ pc = "observer"
    /\ ~on_iteration
    /\ pc' = "decide"
    /\ UNCHANGED <<retryVars, modesVars, cliVars, prompt, observed, invoked, args, job, i, ctx, optimized, validation, last_attempt,
                   locals, outcome, broke, counters, outOfOrder,
                   verdictIter, firstPass>>

\* if validation.passed: break -- else on to the next index.
Decide ==
    /\ pc = "decide"
    /\ IF StopDecision(validation)
       THEN /\ broke' = TRUE
            /\ pc' = "return"
            /\ i' = i
       ELSE /\ broke' = FALSE
            /\ pc' = "for"
            /\ i' = i + 1
    /\ outOfOrder' = FALSE
    /\ observed' = NoneValue
    /\ UNCHANGED <<retryVars, modesVars, cliVars, prompt, invoked, args, job, ctx, optimized, validation, last_attempt,
                   locals, outcome, counters, verdictIter, firstPass>>

\* return optimized, validation, job
Return ==
    /\ pc = "return"
    /\ returned' = [optimized |-> optimized, validation |-> validation,
                    job |-> job]
    /\ pc' = "returned"
    /\ UNCHANGED <<retryVars, modesVars, cliVars, prompt, observed, invoked, args, job, i, ctx, optimized, validation, last_attempt,
                   locals, exception, raisedAt, broke, counters,
                   outOfOrder, verdictIter, firstPass>>

Next ==
    \/ RaiseNoJob
    \/ ParseJob
    \/ UseGivenJob
    \/ ForNext
    \/ ForExhausted
    \/ Rewrite
    \/ RewriteRaises
    \/ RenderAndExtract
    \/ RenderAndExtractRaises
    \/ SynthesizeRenderFailure
    \/ StartParallel
    \/ TaskCompletes
    \/ ParallelReturn
    \/ StartSequential
    \/ SeqSkip
    \/ SeqEvaluate
    \/ SeqEvaluateRaises
    \/ SeqReturn
    \/ Notify
    \/ NotifyRaises
    \/ SkipNotify
    \/ Decide
    \/ Return

Spec == Init /\ [][Next]_vars

\* Every step of the loop is eventually taken: each awaited call completes.
FairSpec == Spec /\ WF_vars(Next)

SpecAnyBudget == InitAnyBudget /\ [][Next]_vars

\* ----------------------------------------------------------- run_with_retry
\* The variables of optimize_for_job that run_filters does not use, at rest.
LoopRestIdle ==
    /\ max_iterations = 0
    /\ parallel = FALSE
    /\ on_iteration = FALSE
    /\ job = None
    /\ job_text = None
    /\ pc = "idle"
    /\ i = 0
    /\ ctx = NoneValue
    /\ optimized = NoneValue
    /\ validation = NoneValue
    /\ last_attempt = None
    /\ exception = None
    /\ raisedAt = None
    /\ returned = NoneValue
    /\ broke = FALSE
    /\ rewriteCalls = 0
    /\ renderCalls = 0
    /\ evalCalls = 0
    /\ observerCalls = 0
    /\ parseCalls = 0
    /\ invoked = <<>>
    /\ outOfOrder = FALSE
    /\ verdictIter = -1
    /\ firstPass = -1
    /\ observed = NoneValue
    /\ prompt = NoneValue

\* optimize_for_job is not running.
LoopIdle ==
    /\ registry = <<>>
    /\ filters = <<>>
    /\ raw_results = <<>>
    /\ results = <<>>
    /\ k = 0
    /\ LoopRestIdle

\* A call of run_with_retry(func, "arg1", key="val", _max_attempts=...) on a
\* func that fails func_failures times and then keeps ending by func_then.
InitRetry ==
    /\ LoopIdle
    /\ ModesIdle
    /\ CliIdle
    /\ func_failures \in 0..MaxFailures
    /\ func_error \in Exceptions
    /\ func_then \in {Value("ok")} \cup Exceptions
    /\ arg_max_attempts \in 0..MaxAttemptsArg
    /\ max_attempts = 0
    /\ rpc = "begin"
    /\ attempt_number = 0
    /\ calls = <<>>
    /\ waits = 0
    /\ retry_outcome = NoExc
    /\ last_exc = NoExc
    /\ last_retryable = FALSE

\* How the n-th call of func ends.
CallOutcome(n) == IF n <= func_failures THEN func_error ELSE func_then

plan == <<func_failures, func_error, func_then, arg_max_attempts>>

\* settings = get_settings(); max_attempts = ...; the first attempt starts.
RetryBegin ==
    /\ rpc = "begin"
    /\ max_attempts' = EffectiveMaxAttempts(arg_max_attempts)
    /\ attempt_number' = 1
    /\ rpc' = "call"
    /\ UNCHANGED <<loopVars, modesVars, cliVars, plan, calls, waits, retry_outcome, last_exc,
                   last_retryable>>

\* _inner: func(*args, **kwargs) returns, and so does run_with_retry.
RetryCallReturns ==
    /\ rpc = "call"
    /\ CallOutcome(Len(calls) + 1).kind = "value"
    /\ calls' = Append(calls, FuncArgs)
    /\ retry_outcome' = CallOutcome(Len(calls) + 1)
    /\ rpc' = "returned"
    /\ UNCHANGED <<loopVars, modesVars, cliVars, plan, max_attempts, attempt_number, waits,
                   last_exc, last_retryable>>

\* func raises an exception the retry predicate rejects: it propagates.
RetryCallFails ==
    /\ rpc = "call"
    /\ LET exc == CallOutcome(Len(calls) + 1)
       IN  /\ exc.kind = "exc"
           /\ ~ShouldRetry(exc)
           /\ last_exc' = exc
           /\ last_retryable' = is_retryable(exc)
           /\ retry_outcome' = exc
    /\ calls' = Append(calls, FuncArgs)
    /\ rpc' = "raised"
    /\ UNCHANGED <<loopVars, modesVars, cliVars, plan, max_attempts, attempt_number, waits>>

\* func raises a retryable exception on the last allowed attempt.
RetryExhausted ==
    /\ rpc = "call"
    /\ LET exc == CallOutcome(Len(calls) + 1)
       IN  /\ exc.kind = "exc"
           /\ ShouldRetry(exc)
           /\ ShouldStop(attempt_number, max_attempts)
           /\ last_exc' = exc
           /\ last_retryable' = is_retryable(exc)
           /\ retry_outcome' = OnStop(exc)
    /\ calls' = Append(calls, FuncArgs)
    /\ rpc' = "raised"
    /\ UNCHANGED <<loopVars, modesVars, cliVars, plan, max_attempts, attempt_number, waits>>

\* func raises a retryable exception and attempts remain: back off.
RetryBackoff ==
    /\ rpc = "call"
    /\ LET exc == CallOutcome(Len(calls) + 1)
       IN  /\ exc.kind = "exc"
           /\ ShouldRetry(exc)
           /\ ~ShouldStop(attempt_number, max_attempts)
           /\ last_exc' = exc
           /\ last_retryable' = is_retryable(exc)
    /\ calls' = Append(calls, FuncArgs)
    /\ rpc' = "wait"
    /\ UNCHANGED <<loopVars, modesVars, cliVars, plan, max_attempts, attempt_number, waits,
                   retry_outcome>>

\* The backoff sleep ends and the next attempt starts.
RetrySleep ==
    /\ rpc = "wait"
    /\ waits' = waits + 1
    /\ attempt_number' = attempt_number + 1
    /\ rpc' = "call"
    /\ UNCHANGED <<loopVars, modesVars, cliVars, plan, max_attempts, calls, retry_outcome,
                   last_exc, last_retryable>>

NextRetry ==
    \/ RetryBegin
    \/ RetryCallReturns
    \/ RetryCallFails
    \/ RetryExhausted
    \/ RetryBackoff
    \/ RetrySleep

SpecRetry == InitRetry /\ [][NextRetry]_vars

\* ------------------------------------ run_filters, one mode after the other
\* The variables of optimize_for_job that run_filters does not use.
loopRest == <<max_iterations, parallel, on_iteration, job, job_text, pc, i,
              ctx, optimized, validation, last_attempt, exception, raisedAt,
              returned, broke, rewriteCalls, renderCalls, evalCalls,
              observerCalls, parseCalls, invoked, outOfOrder, verdictIter,
              firstPass, observed, prompt>>

RegisteredNames == { FilterNames[j] : j \in 1..NumFilters }

\* run_filters is called with parallel=True and then with parallel=False on
\* the same candidate and registry, with evaluators that do not raise and
\* whose outputs are fixed.
InitModes ==
    /\ LoopRestIdle
    /\ RetryIdle
    /\ CliIdle
    /\ registry \in Registries
    /\ filters = <<>>
    /\ raw_results = <<>>
    /\ results = <<>>
    /\ k = 0
    /\ fixed_outputs \in [RegisteredNames -> {"pass", "fail"}]
    /\ mpc = "parallel"
    /\ par_verdict = NoneValue
    /\ seq_verdict = NoneValue

\* parallel=True, up to the gather.
ModesStartParallel ==
    /\ mpc = "parallel"
    /\ filters' = registry
    /\ raw_results' =
           [j \in 1..Len(CreateTasks(registry, optimized, job)) |-> Pending]
    /\ mpc' = "gather"
    /\ UNCHANGED <<retryVars, cliVars, loopRest, registry, results, k, fixed_outputs,
                   par_verdict, seq_verdict>>

\* One evaluator task completes with the evaluator's fixed output.
ModesTaskCompletes ==
    /\ mpc = "gather"
    /\ \E j \in 1..Len(raw_results) :
         /\ raw_results[j] = Pending
         /\ raw_results' = GatherStore(raw_results, j,
                [kind |-> "result",
                 value |-> EvaluatorOutput(filters[j],
                                           fixed_outputs[filters[j].name])])
    /\ UNCHANGED <<retryVars, cliVars, loopRest, registry, filters, results, k,
                   modesVars>>

\* gather returns and run_filters(parallel=True) returns its verdict.
ModesParallelReturn ==
    /\ mpc = "gather"
    /\ \A j \in 1..Len(raw_results) : raw_results[j] # Pending
    /\ par_verdict' = ValidationResult(AssembleResults(filters, raw_results))
    /\ filters' = <<>>
    /\ raw_results' = <<>>
    /\ mpc' = "sequential"
    /\ UNCHANGED <<retryVars, cliVars, loopRest, registry, results, k, fixed_outputs,
                   seq_verdict>>

\* parallel=False, up to the loop.
ModesStartSequential ==
    /\ mpc = "sequential"
    /\ filters' = sorted(registry)
    /\ results' = <<>>
    /\ k' = 1
    /\ mpc' = "seq"
    /\ UNCHANGED <<retryVars, cliVars, loopRest, registry, raw_results, fixed_outputs,
                   par_verdict, seq_verdict>>

\* A final check is skipped because an earlier result failed.
ModesSeqSkip ==
    /\ mpc = "seq"
    /\ k <= Len(filters)
    /\ SkipFinal(filters[k], results)
    /\ k' = k + 1
    /\ UNCHANGED <<retryVars, cliVars, loopRest, registry, filters, raw_results,
                   results, modesVars>>

\* The next evaluator returns its fixed output; maybe break.
ModesSeqEvaluate ==
    /\ mpc = "seq"
    /\ k <= Len(filters)
    /\ ~SkipFinal(filters[k], results)
    /\ LET result == EvaluatorOutput(filters[k],
                                     fixed_outputs[filters[k].name])
       IN  /\ results' = Append(results, result)
           /\ k' = IF EarlyExit(filters[k], result)
                   THEN Len(filters) + 1 ELSE k + 1
    /\ UNCHANGED <<retryVars, cliVars, loopRest, registry, filters, raw_results,
                   modesVars>>

\* run_filters(parallel=False) returns its verdict.
ModesSeqReturn ==
    /\ mpc = "seq"
    /\ k > Len(filters)
    /\ seq_verdict' = ValidationResult(results)
    /\ filters' = <<>>
    /\ results' = <<>>
    /\ k' = 0
    /\ mpc' = "done"
    /\ UNCHANGED <<retryVars, cliVars, loopRest, registry, raw_results, fixed_outputs,
                   par_verdict>>

NextModes ==
    \/ ModesStartParallel
    \/ ModesTaskCompletes
    \/ ModesParallelReturn
    \/ ModesStartSequential
    \/ ModesSeqSkip
    \/ ModesSeqEvaluate
    \/ ModesSeqReturn

SpecModes == InitModes /\ [][NextModes]_vars

\* ------------------------------------------------- cli.py: _get_job_text
\* job_input as the text after a leading scheme, if it has one.
Schemes == {"", "http://", "https://", "ftp://", "HTTP://"}

\* The rest is short, or a text with more than 255 characters before its
\* first "/" (longer than a file name may be).
JobInputArgs ==
    { [scheme |-> sc, rest |-> r] :
        sc \in Schemes, r \in {"short text", "long text"} }

\* job_input.startswith(("http://", "https://"))
IsUrl(ji) == ji.scheme \in {"http://", "https://"}

\* Path(job_input): nothing there, a regular file, a directory, or a name
\* the operating system rejects as too long (ENAMETOOLONG).
PathKinds == {"missing", "file", "directory", "name too long"}

\* path.exists(): pathlib turns "no such file" into False; for ENAMETOOLONG
\* it returns False or lets the OSError through, depending on the
\* interpreter's version.
ExistsOutcomes(kind) ==
    CASE kind \in {"file", "directory"} -> {"True"}
      [] kind = "missing" -> {"False"}
      [] kind = "name too long" -> {"False", "OSError"}

InputLines == {"", " ", "a"}

RECURSIVE SeqsUpTo(_)
SeqsUpTo(n) ==
    IF n = 0 THEN {<<>>}
    ELSE LET shorter == SeqsUpTo(n - 1)
         IN  shorter \cup { Append(q, l) : q \in shorter, l \in InputLines }

Returned(source, text) == [kind |-> "return", source |-> source, text |-> text]

Raised(exc) == [kind |-> "raise", exc |-> exc]

\* "\n".join(lines).strip(): the lines without the leading and the trailing
\* ones that hold white space only.
IsBlank(line) == line \in {"", " "}

RECURSIVE StripLeading(_)
StripLeading(ls) ==
    IF ls = <<>> THEN <<>>
    ELSE IF IsBlank(Head(ls)) THEN StripLeading(Tail(ls))
    ELSE ls

RECURSIVE StripTrailing(_)
StripTrailing(ls) ==
    IF ls = <<>> THEN <<>>
    ELSE IF IsBlank(ls[Len(ls)]) THEN StripTrailing(SubSeq(ls, 1, Len(ls) - 1))
    ELSE ls

JoinStrip(ls) == StripTrailing(StripLeading(ls))

InitCli ==
    /\ LoopIdle
    /\ RetryIdle
    /\ ModesIdle
    /\ CommandIdle
    /\ job_input \in JobInputArgs
    /\ path_kind \in PathKinds
    /\ path_kind = "name too long" => job_input.rest = "long text"
    /\ job_input.rest = "long text" => path_kind = "name too long"
    /\ stdin \in SeqsUpTo(MaxLines)
    /\ cpc = "start"
    /\ scrapeCalls = 0
    /\ scrape_outcome = None
    /\ launched = FALSE
    /\ lines = <<>>
    /\ empty_count = 0
    /\ readCalls = 0
    /\ cli_result = NoneValue

idleForCli == <<loopVars, retryVars, modesVars, cmdVars>>

cliInputs == <<job_input, path_kind, stdin>>

\* path.exists() is true and path.read_text() returns the file's text.
GetJobTextFromFile ==
    /\ cpc = "start"
    /\ "True" \in ExistsOutcomes(path_kind)
    /\ path_kind = "file"
    /\ cli_result' = Returned("file", "file text")
    /\ cpc' = "returned"
    /\ UNCHANGED <<idleForCli, cliInputs, scrapeCalls, scrape_outcome,
                   launched, lines, empty_count, readCalls>>

\* path.exists() is true of a directory and path.read_text() raises.
GetJobTextReadFails ==
    /\ cpc = "start"
    /\ "True" \in ExistsOutcomes(path_kind)
    /\ path_kind = "directory"
    /\ cli_result' = Raised("IsADirectoryError")
    /\ cpc' = "raised"
    /\ UNCHANGED <<idleForCli, cliInputs, scrapeCalls, scrape_outcome,
                   launched, lines, empty_count, readCalls>>

\* path.exists() raises.
GetJobTextExistsRaises ==
    /\ cpc = "start"
    /\ "OSError" \in ExistsOutcomes(path_kind)
    /\ cli_result' = Raised("OSError")
    /\ cpc' = "raised"
    /\ UNCHANGED <<idleForCli, cliInputs, scrapeCalls, scrape_outcome,
                   launched, lines, empty_count, readCalls>>

\* path.exists() is false.
GetJobTextNotAFile ==
    /\ cpc = "start"
    /\ "False" \in ExistsOutcomes(path_kind)
    /\ cpc' = "url"
    /\ UNCHANGED <<idleForCli, cliInputs, scrapeCalls, scrape_outcome,
                   launched, lines, empty_count, readCalls, cli_result>>

\* scrape_job_posting(job_input) returns the posting's text.
ScrapeReturns ==
    /\ cpc = "url"
    /\ IsUrl(job_input)
    /\ scrapeCalls' = scrapeCalls + 1
    /\ scrape_outcome' = "ok"
    /\ cli_result' = Returned("scrape", "scraped text")
    /\ cpc' = "returned"
    /\ UNCHANGED <<idleForCli, cliInputs, launched, lines, empty_count,
                   readCalls>>

\* except CloudflareBlockedError: open the browser, read the text by hand.
ScrapeBlocked ==
    /\ cpc = "url"
    /\ IsUrl(job_input)
    /\ scrapeCalls' = scrapeCalls + 1
    /\ scrape_outcome' = "CloudflareBlockedError"
    /\ launched' = TRUE
    /\ lines' = <<>>
    /\ empty_count' = 0
    /\ cpc' = "manual"
    /\ UNCHANGED <<idleForCli, cliInputs, readCalls, cli_result>>

\* except ScrapingError as e: raise click.ClickException(str(e))
ScrapeFails ==
    /\ cpc = "url"
    /\ IsUrl(job_input)
    /\ scrapeCalls' = scrapeCalls + 1
    /\ scrape_outcome' = "ScrapingError"
    /\ cli_result' = Raised("ClickException: scraping error")
    /\ cpc' = "raised"
    /\ UNCHANGED <<idleForCli, cliInputs, launched, lines, empty_count,
                   readCalls>>

\* Not a URL: return job_input.
GetJobTextRaw ==
    /\ cpc = "url"
    /\ ~IsUrl(job_input)
    /\ cli_result' = Returned("raw", job_input)
    /\ cpc' = "returned"
    /\ UNCHANGED <<idleForCli, cliInputs, scrapeCalls, scrape_outcome,
                   launched, lines, empty_count, readCalls>>

\* _read_multiline_input: input() ends by a line or by EOFError; the loop
\* breaks at end of input and at the second empty line in a row.
AtEof == readCalls = Len(stdin)

NextLine == stdin[readCalls + 1]

BreaksAtFirstEmptyMut ==
    IF AtEof THEN TRUE
    ELSE NextLine = ""

Breaks ==
    IF AtEof THEN TRUE
    ELSE NextLine = "" /\ empty_count + 1 >= EmptyLinesToStop

\* input() returns a line that is kept.
ReadLine ==
    /\ cpc = "manual"
    /\ ~Breaks
    /\ readCalls' = readCalls + 1
    /\ empty_count' = IF NextLine = "" THEN empty_count + 1 ELSE 0
    /\ lines' = Append(lines, NextLine)
    /\ UNCHANGED <<idleForCli, cliInputs, cpc, scrapeCalls, scrape_outcome,
                   launched, cli_result>>

\* The loop breaks and the collected text is not empty: return it.
ReadReturns ==
    /\ cpc = "manual"
    /\ Breaks
    /\ JoinStrip(lines) # <<>>
    /\ readCalls' = readCalls + 1
    /\ empty_count' = IF AtEof THEN empty_count ELSE empty_count + 1
    /\ cli_result' = Returned("manual", JoinStrip(lines))
    /\ cpc' = "returned"
    /\ UNCHANGED <<idleForCli, cliInputs, scrapeCalls, scrape_outcome,
                   launched, lines>>

\* The loop breaks and the collected text is empty: ClickException.
ReadNothing ==
    /\ cpc = "manual"
    /\ Breaks
    /\ JoinStrip(lines) = <<>>
    /\ readCalls' = readCalls + 1
    /\ empty_count' = IF AtEof THEN empty_count ELSE empty_count + 1
    /\ cli_result' = Raised("ClickException: No job description provided")
    /\ cpc' = "raised"
    /\ UNCHANGED <<idleForCli, cliInputs, scrapeCalls, scrape_outcome,
                   launched, lines>>

NextCli ==
    \/ GetJobTextFromFile
    \/ GetJobTextReadFails
    \/ GetJobTextExistsRaises
    \/ GetJobTextNotAFile
    \/ ScrapeReturns
    \/ ScrapeBlocked
    \/ ScrapeFails
    \/ GetJobTextRaw
    \/ ReadLine
    \/ ReadReturns
    \/ ReadNothing

SpecCli == InitCli /\ [][NextCli]_vars

\* The command's code runs on: each call of input() ends, by a line or by
\* EOFError, because stdin is a finite sequence of lines.
FairSpecCli == SpecCli /\ WF_vars(NextCli)

\* ------------------------------------------------ the optimize command's end
\* What the command does once asyncio.run(run_optimization()) has handed back
\* optimize_for_job's result.
jobTextVars == <<job_input, path_kind, stdin, cpc, scrapeCalls, scrape_outcome,
                 launched, lines, empty_count, readCalls, cli_result>>

Exited(echo) == [kind |-> "exit", echo |-> echo]

GeneratedPDF(checksum, jb) == [source_checksum |-> checksum, job |-> jb]

\* "if not optimized.pdf_bytes" is false: the bytes are neither None nor empty.
HasPdfPassedOnlyMut(opt, v) ==
    /\ opt.pdf_bytes # None
    /\ opt.pdf_bytes # ""
    /\ passed(v)

HasPdf(opt, v) ==
    /\ opt.pdf_bytes # None
    /\ opt.pdf_bytes # ""

\* "validation.passed" on the None that an empty range leaves in validation.
CommandAttributeError ==
    /\ pc = "returned"
    /\ cmd_result = NoneValue
    /\ returned.validation = NoneValue
    /\ cmd_result' = Raised("AttributeError")
    /\ UNCHANGED <<loopVars, retryVars, modesVars, jobTextVars, warned,
                   output_file, saved_record>>

\* The warning, then ClickException before anything is written.
CommandNoPdf ==
    /\ pc = "returned"
    /\ cmd_result = NoneValue
    /\ returned.validation # NoneValue
    /\ ~HasPdf(returned.optimized, returned.validation)
    /\ warned' = ~passed(returned.validation)
    /\ cmd_result' = Raised("ClickException: No PDF generated (render failed)")
    /\ UNCHANGED <<loopVars, retryVars, modesVars, jobTextVars, output_file,
                   saved_record>>

\* The warning, output.write_bytes, pdf_storage.save_record and the last echo.
CommandSaves ==
    /\ pc = "returned"
    /\ cmd_result = NoneValue
    /\ returned.validation # NoneValue
    /\ HasPdf(returned.optimized, returned.validation)
    /\ warned' = ~passed(returned.validation)
    /\ output_file' = returned.optimized.pdf_bytes
    /\ saved_record' = GeneratedPDF(SourceChecksum, returned.job)
    /\ cmd_result' = Exited("PDF saved")
    /\ UNCHANGED <<loopVars, retryVars, modesVars, jobTextVars>>

NextCommand ==
    \/ Next
    \/ CommandAttributeError
    \/ CommandNoPdf
    \/ CommandSaves

SpecCommand == InitAnyBudget /\ [][NextCommand]_vars

\* ----------------------------------------------------------------- claims
AllPass(rs) == \A j \in 1..Len(rs) : rs[j].passed = TRUE

Rendered == optimized # NoneValue /\ optimized.pdf_text # None
RenderFailed == optimized # NoneValue /\ optimized.pdf_text = None

\* C1: every verdict the loop produces passes overall exactly when each of
\* its results passed, and the loop stops by break exactly on that flag: a
\* loop that has ended did so by break iff every result of its verdict
\* passed, and a loop that went on did so over a verdict with a failing
\* result.
C1_VerdictFlagDecides ==
    /\ (pc \in {"return", "returned"} /\ validation # NoneValue)
          => (broke <=> AllPass(validation.results))
    /\ (pc \in {"for", "rewrite", "render", "validate", "gather", "seq"}
            /\ validation # NoneValue)
          => ~AllPass(validation.results)

C1_Witness ==
    /\ pc = "returned"
    /\ broke
    /\ Len(returned.validation.results) = NumFilters
    /\ rewriteCalls = 2

\* C2: the number of rewrite-step invocations never exceeds max_iterations.
C2_RewriteBudget == rewriteCalls <= max_iterations

C2_Witness ==
    /\ pc = "returned"
    /\ rewriteCalls = max_iterations
    /\ max_iterations = MaxIterationsBound
    /\ ~broke

\* C3: when no external call raises the loop reaches its return, Passed or
\* Exhausted, after at most max_iterations iterations, and what it returns
\* is the candidate and the verdict of the last iteration that ran.
C3_ReturnsLastIteration ==
    pc = "returned" =>
        /\ rewriteCalls <= max_iterations
        /\ broke \/ rewriteCalls = max_iterations
        /\ returned.optimized # NoneValue
        /\ returned.optimized.iteration = rewriteCalls - 1
        /\ returned.optimized = optimized
        /\ returned.validation = validation
        /\ verdictIter = rewriteCalls - 1

C3_Terminates ==
    /\ <>(pc = "returned" \/ exception # None)
    /\ []C3_ReturnsLastIteration

C3_Witness ==
    /\ pc = "returned"
    /\ ~broke
    /\ returned.optimized.iteration = MaxIterationsBound - 1
    /\ verdictIter = MaxIterationsBound - 1

\* C4: the loop stops at the first iteration k whose verdict passes: k+1
\* rewrite calls, k+1 render calls, no iteration k+1, and the candidate
\* returned has iteration k with a passing verdict.
C4_StopsAtFirstPass ==
    /\ firstPass # -1 =>
          /\ rewriteCalls = firstPass + 1
          /\ renderCalls = firstPass + 1
          /\ i = firstPass
          /\ pc \in {"observer", "decide", "return", "returned", "raised"}
    /\ (pc = "returned" /\ firstPass # -1) =>
          /\ returned.optimized.iteration = firstPass
          /\ AllPass(returned.validation.results)
    /\ (pc = "returned" /\ returned.validation # NoneValue
            /\ AllPass(returned.validation.results)) =>
          firstPass = returned.optimized.iteration

C4_Witness ==
    /\ pc = "returned"
    /\ firstPass = 1
    /\ rewriteCalls = 2
    /\ renderCalls = 2
    /\ returned.optimized.iteration = 1

\* C5: when every verdict fails the loop makes exactly max_iterations
\* rewrite calls and returns the last candidate with a failing verdict; the
\* steps that act on a failing verdict never raise.
C5_ExhaustedReturnsNormally ==
    /\ (pc = "returned" /\ returned.validation # NoneValue
            /\ ~AllPass(returned.validation.results)) =>
          /\ rewriteCalls = max_iterations
          /\ returned.optimized.iteration = max_iterations - 1
          /\ verdictIter = max_iterations - 1
          /\ exception = None
    /\ pc = "raised" => raisedAt \notin {"validate", "decide", "for", "return"}

C5_Witness ==
    /\ pc = "returned"
    /\ max_iterations = 2
    /\ rewriteCalls = 2
    /\ ~AllPass(returned.validation.results)
    /\ Rendered

\* C6: a render failure on iteration i gives a verdict of exactly one result,
\* named PDFRender, failing, with score 0.0 and threshold 1.0; no evaluator
\* is invoked in that iteration; the loop goes on to iteration i+1 when
\* i+1 < max_iterations, ending there only when the budget is used up.
C6_RenderFailureVerdict ==
    /\ (pc \in {"observer", "decide"} /\ RenderFailed) =>
          /\ Len(validation.results) = 1
          /\ validation.results[1].filter_name = "PDFRender"
          /\ validation.results[1].passed = FALSE
          /\ validation.results[1].score = 0
          /\ validation.results[1].threshold = 100
          /\ evalCalls = 0
    /\ (pc = "for" /\ RenderFailed) => i = optimized.iteration + 1
    /\ (pc \in {"return", "returned"} /\ RenderFailed) =>
          /\ ~broke
          /\ optimized.iteration + 1 = max_iterations

C6_Witness ==
    /\ pc = "rewrite"
    /\ i = 1
    /\ RenderFailed
    /\ validation.results[1].filter_name = "PDFRender"

\* C7: a failure anywhere in render-and-extract (rendering, or extracting
\* the text) never raises out of optimize_for_job.
C7_RenderStepNeverRaises == raisedAt # "render"

\* C8: in parallel mode the pass returns one result per registered
\* evaluator; an evaluator that raised gets a failing result with score 0.0,
\* its declared threshold, its own name and a non-empty issues list, and the
\* results of the others are returned as they were.
C8_ParallelExceptionResults ==
    [][(pc = "gather" /\ pc' = "observer") =>
          /\ Len(validation'.results) = Len(registry)
          /\ \A j \in 1..Len(registry) :
                IF raw_results[j].kind = "exception"
                THEN /\ validation'.results[j].passed = FALSE
                     /\ validation'.results[j].score = 0
                     /\ validation'.results[j].threshold = registry[j].threshold
                     /\ validation'.results[j].filter_name = registry[j].name
                     /\ validation'.results[j].issues # <<>>
                ELSE validation'.results[j] = raw_results[j].value]_vars

C8_Witness ==
    /\ pc = "observer"
    /\ parallel
    /\ Rendered
    /\ \E j \in 1..Len(validation.results) :
          validation.results[j].issues = <<"Filter error">>
    /\ \E j \in 1..Len(validation.results) : validation.results[j].passed

\* C9: in sequential as in parallel mode an evaluator that raises becomes a
\* failing result; its exception never leaves the validation pass or the
\* loop.
C9_EvaluatorNeverRaisesOut == exception # "EvaluatorError"

\* C10: in parallel mode result j of the verdict belongs to the j-th
\* registered evaluator, whatever the order in which the tasks completed.
C10_RegistrationOrder ==
    (pc = "observer" /\ parallel /\ Rendered) =>
        /\ Len(validation.results) = Len(registry)
        /\ \A j \in 1..Len(registry) :
              validation.results[j].filter_name = registry[j].name

C10_Witness ==
    /\ pc = "observer"
    /\ parallel
    /\ Rendered
    /\ outOfOrder
    /\ AllPass(validation.results)

\* The sequential pass in progress or just ended, and its results so far.
InSeqPass ==
    /\ ~parallel
    /\ \/ pc = "seq"
       \/ pc = "raised" /\ raisedAt = "seq"
       \/ pc \in {"observer", "decide"} /\ Rendered

SeqResults == IF pc \in {"observer", "decide"}
              THEN validation.results ELSE results

RegIndex(name) ==
    CHOOSE j \in 1..Len(registry) : registry[j].name = name

\* C11: in parallel mode every registered evaluator is invoked exactly once,
\* on the same candidate and job, with no early exit, and the pass returns
\* only when every task has completed, by a result or by an exception.
C11_ParallelInvokesAll ==
    /\ []((pc \in {"gather", "observer", "decide"} /\ parallel /\ Rendered)
            => /\ Len(invoked) = Len(registry)
               /\ \A j \in 1..Len(registry) :
                     /\ invoked[j].name = registry[j].name
                     /\ invoked[j].candidate = optimized
                     /\ invoked[j].job = job)
    /\ [][(pc = "gather" /\ pc' # "gather")
            => /\ pc' = "observer"
               /\ Len(raw_results) = Len(registry)
               /\ \A j \in 1..Len(raw_results) : raw_results[j] # Pending
               /\ Len(validation'.results) = Len(registry)]_vars

C11_Witness ==
    /\ pc = "observer"
    /\ parallel
    /\ Rendered
    /\ Len(invoked) = NumFilters
    /\ registry[1].priority < 100
    /\ ~validation.results[1].passed
    /\ validation.results[2].issues = <<"Filter error">>

\* C12: in sequential mode an evaluator of priority >= 100 is never invoked
\* after an earlier evaluator of the pass has produced a failing result.
C12_FinalNotInvokedAfterFailure ==
    InSeqPass =>
        \A p \in 1..Len(invoked) :
            invoked[p].priority >= 100 =>
                \A q \in 1..(p - 1) :
                    q <= Len(SeqResults) => SeqResults[q].passed

C12_Witness ==
    /\ ~parallel
    /\ pc = "observer"
    /\ Rendered
    /\ \A j \in 1..Len(registry) : registry[j].priority >= 100
    /\ Len(invoked) = 1
    /\ ~validation.results[1].passed

\* C13: in sequential mode, once an evaluator of priority < 100 has returned
\* a failing result no further evaluator is invoked in the pass, and that
\* result is the last one of the verdict.
C13_EarlyExitOnFailure ==
    InSeqPass =>
        \A p \in 1..Len(SeqResults) :
            (~SeqResults[p].passed /\ invoked[p].priority < 100) =>
                /\ p = Len(SeqResults)
                /\ p = Len(invoked)

C13_Witness ==
    /\ ~parallel
    /\ pc = "observer"
    /\ Rendered
    /\ Len(validation.results) = 1
    /\ ~validation.results[1].passed
    /\ invoked[1].priority < 100
    /\ Len(invoked) = 1

\* C14: in sequential mode evaluators are invoked in ascending priority
\* order, equal priorities in registration order, and the results are listed
\* in invocation order.
C14_AscendingPriorityOrder ==
    InSeqPass =>
        /\ \A p, q \in 1..Len(invoked) :
              p < q =>
                 \/ invoked[p].priority < invoked[q].priority
                 \/ /\ invoked[p].priority = invoked[q].priority
                    /\ RegIndex(invoked[p].name) < RegIndex(invoked[q].name)
        /\ Len(SeqResults) <= Len(invoked)
        /\ \A p \in 1..Len(SeqResults) :
              SeqResults[p].filter_name = invoked[p].name

C14_Witness ==
    /\ ~parallel
    /\ pc = "observer"
    /\ Rendered
    /\ registry[1].priority > registry[2].priority
    /\ Len(validation.results) = 2
    /\ validation.results[1].filter_name = registry[2].name
    /\ validation.results[2].filter_name = registry[1].name

\* C15: when the rewrite step raises on iteration i the error leaves
\* optimize_for_job: no render, evaluator or observer call is made for
\* iteration i, no later iteration starts, and nothing is returned.
C15_RewriteFailureIsFatal ==
    exception = "RewriteError" =>
        /\ pc = "raised"
        /\ returned = NoneValue
        /\ rewriteCalls = i + 1
        /\ renderCalls = i
        /\ observerCalls = (IF on_iteration THEN i ELSE 0)
        /\ verdictIter = i - 1
        /\ optimized = NoneValue \/ optimized.iteration = i - 1
        /\ \A p \in 1..Len(invoked) : invoked[p].candidate.iteration < i

C15_Witness ==
    /\ exception = "RewriteError"
    /\ i = 1
    /\ on_iteration
    /\ observerCalls = 1
    /\ invoked # <<>>

\* C20: within iteration i the steps come in the order rewrite, render and
\* extract, evaluation or render-failure verdict, observer, stop decision;
\* the rewrite of iteration i+1 starts only after the observer of iteration
\* i has returned.
ObserverReturned(n) == observerCalls = (IF on_iteration THEN n ELSE 0)

C20_StepsInOrder ==
    /\ pc \in {"for", "rewrite"} =>
          /\ rewriteCalls = i /\ renderCalls = i
          /\ verdictIter = i - 1 /\ ObserverReturned(i)
    /\ pc = "render" =>
          /\ rewriteCalls = i + 1 /\ renderCalls = i
          /\ optimized.iteration = i
          /\ verdictIter = i - 1 /\ ObserverReturned(i)
    /\ pc \in {"validate", "gather", "seq"} =>
          /\ rewriteCalls = i + 1 /\ renderCalls = i + 1
          /\ optimized.iteration = i
          /\ \A p \in 1..Len(invoked) : invoked[p].candidate = optimized
          /\ verdictIter = i - 1 /\ ObserverReturned(i)
    /\ pc = "observer" =>
          /\ rewriteCalls = i + 1 /\ renderCalls = i + 1
          /\ verdictIter = i /\ ObserverReturned(i)
    /\ pc = "decide" =>
          /\ rewriteCalls = i + 1 /\ renderCalls = i + 1
          /\ verdictIter = i /\ ObserverReturned(i + 1)

C20_Witness ==
    /\ pc = "rewrite"
    /\ i = 1
    /\ on_iteration
    /\ observerCalls = 1
    /\ verdictIter = 0

\* What the claims about the retry wrapper call retryable: an integer
\* status_code among 429, 500, 502, 503, 504.
RetryableStatus(exc) ==
    /\ exc.kind = "exc"
    /\ exc.status.t = "int"
    /\ exc.status.v \in {429, 500, 502, 503, 504}

RetryDone == rpc \in {"returned", "raised"}

AllCallsWithOriginalArgs ==
    \A n \in 1..Len(calls) :
        calls[n] = [args |-> <<"arg1">>, kwargs |-> <<"key", "val">>]

\* C16: on a function that fails k times with a retryable error and then
\* succeeds, k < max_attempts, run_with_retry returns the success value after
\* exactly k+1 calls, each with the original arguments.
C16_RetriesThenSucceeds ==
    (/\ RetryDone
     /\ func_then.kind = "value"
     /\ func_failures < max_attempts
     /\ func_failures = 0 \/ RetryableStatus(func_error)) =>
        /\ rpc = "returned"
        /\ retry_outcome = func_then
        /\ Len(calls) = func_failures + 1
        /\ waits = func_failures
        /\ AllCallsWithOriginalArgs

C16_Witness ==
    /\ rpc = "returned"
    /\ func_failures = 2
    /\ Len(calls) = 3
    /\ retry_outcome = Value("ok")

\* C17: on a function that always fails with a retryable error,
\* run_with_retry calls it exactly max_attempts times and then raises that
\* same error, not a wrapper.
C17_ExhaustionReraisesOriginal ==
    (/\ RetryDone
     /\ RetryableStatus(func_error)
     /\ func_then = func_error) =>
        /\ rpc = "raised"
        /\ retry_outcome = func_error
        /\ Len(calls) = max_attempts
        /\ waits = max_attempts - 1

C17_Witness ==
    /\ rpc = "raised"
    /\ RetryableStatus(func_error)
    /\ func_then = func_error
    /\ arg_max_attempts = 2
    /\ Len(calls) = 2

\* C18: on a function that fails with a non-retryable error, run_with_retry
\* raises that error after exactly one call and without any backoff wait,
\* whatever max_attempts is.
C18_NonRetryablePropagates ==
    (/\ RetryDone
     /\ CallOutcome(1).kind = "exc"
     /\ ~RetryableStatus(CallOutcome(1))) =>
        /\ rpc = "raised"
        /\ retry_outcome = CallOutcome(1)
        /\ Len(calls) = 1
        /\ waits = 0

C18_Witness ==
    /\ rpc = "raised"
    /\ func_failures > 0
    /\ func_error = Exc("ModelHTTPError", IntStatus(400))
    /\ max_attempts = 3
    /\ Len(calls) = 1

\* C19: is_retryable is true exactly for the exceptions that carry an integer
\* status_code among 429, 500, 502, 503, 504, whatever their class.
C19_IsRetryableByStatus ==
    last_exc # NoExc => (last_retryable <=> RetryableStatus(last_exc))

C19_Witness ==
    /\ last_exc = Exc("RateLimitError", IntStatus(504))
    /\ last_retryable

\* C21: a supplied observer is called exactly once in every iteration that
\* reached its verdict, with that iteration's index, its candidate as it is
\* after render-and-extract and its verdict, in increasing index order, the
\* passing iteration and render-failure iterations included, and before the
\* stop decision of the iteration.
C21_ObserverOncePerIteration ==
    /\ ~on_iteration => observerCalls = 0 /\ observed = NoneValue
    /\ on_iteration =>
          /\ pc \in {"for", "rewrite", "render", "validate", "gather", "seq",
                     "observer"}
                => observerCalls = i /\ observed = NoneValue
          /\ pc = "decide"
                => /\ observerCalls = i + 1
                   /\ observed = [iteration |-> i, optimized |-> optimized,
                                  validation |-> validation]
                   /\ optimized.iteration = i
                   /\ verdictIter = i
          /\ (pc = "raised" /\ raisedAt = "observer")
                => observerCalls = i + 1 /\ observed.iteration = i
          /\ pc \in {"return", "returned"} => observerCalls = rewriteCalls

C21_Witness ==
    /\ pc = "decide"
    /\ on_iteration
    /\ observerCalls = 2
    /\ observed.iteration = 1
    /\ observed.optimized.pdf_text # None
    /\ AllPass(observed.validation.results)

\* C22: an error raised by the observer on iteration i does not abort the
\* loop: optimize_for_job never ends by the observer's error, so the stop
\* decision of iteration i is still taken.
C22_ObserverFailureDoesNotAbort ==
    ~(pc = "raised" /\ raisedAt = "observer" /\ exception = "ObserverError")

\* C23: the IterationContext handed to the rewrite step has index i and the
\* original source content; on iteration 0 it has no previous attempt and no
\* previous verdict, and on iteration i > 0 it carries the raw content of the
\* candidate of iteration i-1 and the verdict of iteration i-1.
C23_ContextCarriesPrevious ==
    pc = "rewrite" =>
        /\ ctx.iteration = i
        /\ ctx.original_resume = SourceContent
        /\ i = 0 => ctx.last_attempt = None /\ ctx.validation = NoneValue
        /\ i > 0 => /\ optimized.iteration = i - 1
                    /\ ctx.last_attempt = optimized.html
                    /\ verdictIter = i - 1
                    /\ ctx.validation = validation

\* C24: the candidate the rewrite step returns on iteration i is tagged with
\* iteration i and the source's checksum, it keeps both tags through
\* render-and-extract, and the candidate the loop returns carries them.
C24_CandidateTags ==
    /\ pc \in {"render", "validate", "gather", "seq", "observer", "decide"} =>
          /\ optimized.iteration = i
          /\ optimized.source_checksum = SourceChecksum
    /\ pc = "returned" =>
          /\ returned.optimized.iteration = rewriteCalls - 1
          /\ returned.optimized.source_checksum = SourceChecksum

C24_Witness ==
    /\ pc = "returned"
    /\ returned.optimized.pdf_text # None
    /\ returned.optimized.iteration = 1
    /\ returned.optimized.source_checksum = SourceChecksum

\* C25: render-and-extract leaves the candidate it receives as it is: on
\* success the result equals the input except for the extracted text and the
\* binary now attached, and on a render failure the result is the input with
\* every field unchanged, text and binary still absent.
C25_RenderKeepsCandidate ==
    [][(pc = "render" /\ pc' = "validate") =>
          /\ optimized.pdf_text = None
          /\ optimized.pdf_bytes = None
          /\ IF optimized'.pdf_text # None
             THEN /\ optimized'.pdf_bytes # None
                  /\ optimized = [optimized' EXCEPT !.pdf_text = None,
                                                    !.pdf_bytes = None]
             ELSE optimized' = optimized]_vars

C25_Witness ==
    /\ pc = "validate"
    /\ i = 1
    /\ optimized.html = "<h1>cv</h1>"
    /\ optimized.pdf_text = None
    /\ optimized.pdf_bytes = None

\* C26: called with neither a parsed job nor job text, optimize_for_job
\* raises ValueError before any rewrite, render or evaluator call; a supplied
\* parsed job is used without invoking the parser; otherwise the parser is
\* invoked exactly once, before iteration 0; and the job so obtained is the one
\* every rewrite and evaluator call is given and the one returned.
C26_JobResolution ==
    /\ []((job = None /\ job_text = None /\ pc # "start") =>
            /\ pc = "raised"
            /\ exception = "ValueError"
            /\ parseCalls = 0
            /\ rewriteCalls = 0 /\ renderCalls = 0 /\ evalCalls = 0
            /\ invoked = <<>>)
    /\ [](/\ parseCalls <= 1
          /\ prompt # NoneValue => prompt.job = job
          /\ \A p \in 1..Len(invoked) : invoked[p].job = job
          /\ pc = "returned" => returned.job = job)
    /\ [][/\ (pc = "start" /\ job # None) =>
                (parseCalls' = parseCalls /\ job' = job)
          /\ (pc = "start" /\ job = None /\ job_text # None) =>
                /\ parseCalls' = 1
                /\ job' # None
                /\ pc' = "for" /\ i' = 0 /\ rewriteCalls' = 0
          /\ pc # "start" =>
                (parseCalls' = parseCalls /\ job' = job)]_vars

C26_Witness ==
    /\ pc = "returned"
    /\ parseCalls = 1
    /\ returned.job = "parsed job"
    /\ returned.optimized.iteration = 1
    /\ invoked # <<>>

\* C27: the rewrite prompt has the previous attempt and the
\* minimal-refinement note exactly when the context has a previous attempt,
\* and the per-evaluator filter results exactly when the context has a
\* previous verdict; on iteration 0 it has neither.
C27_PromptFollowsContext ==
    [][(pc = "rewrite" /\ pc' # "rewrite") =>
          /\ "Last Attempt" \in prompt'.sections
                <=> ctx.last_attempt # None
          /\ "Refinement Note" \in prompt'.sections
                <=> ctx.last_attempt # None
          /\ ctx.last_attempt # None
                => prompt'.last_attempt = ctx.last_attempt
          /\ "Filter Results" \in prompt'.sections
                <=> ctx.validation # NoneValue
          /\ ctx.validation # NoneValue
                => prompt'.filter_results = ctx.validation
          /\ ctx.iteration = 0 => prompt'.sections = {}]_vars

C27_Witness ==
    /\ pc = "render"
    /\ i = 1
    /\ prompt.sections = {"Last Attempt", "Refinement Note", "Filter Results"}
    /\ prompt.last_attempt = "<h1>cv</h1>"

\* C30: a sequential-mode verdict has at most one failing result, and a
\* failing result is the last one; a failing final check (priority >= 100)
\* does not end the pass by itself, the pass moves on to the next evaluator,
\* and every later final check is skipped.
C30_SingleFailureLast ==
    /\ [](InSeqPass =>
            /\ \A p \in 1..Len(SeqResults) :
                  ~SeqResults[p].passed => p = Len(SeqResults)
            /\ Len(invoked) = Len(SeqResults)
                  \/ (pc = "raised" /\ Len(invoked) = Len(SeqResults) + 1))
    /\ [][(/\ pc = "seq"
           /\ Len(results') = Len(results) + 1
           /\ ~results'[Len(results')].passed
           /\ filters[k].priority >= 100) =>
              (pc' = "seq" /\ k' = k + 1)]_vars

C30_Witness ==
    /\ ~parallel
    /\ pc = "seq"
    /\ Len(filters) >= 2
    /\ filters[1].priority >= 100
    /\ k = Len(filters) + 1
    /\ Len(results) = 1
    /\ ~results[1].passed

\* C29: for evaluators that do not raise and whose outputs are fixed, the
\* sequential and the parallel verdict agree on overall_passed, and every
\* result of the sequential verdict is one of the parallel verdict's results.
C29_ModesAgree ==
    mpc = "done" =>
        /\ AllPass(seq_verdict.results) <=> AllPass(par_verdict.results)
        /\ passed(seq_verdict) <=> passed(par_verdict)
        /\ \A p \in 1..Len(seq_verdict.results) :
              \E q \in 1..Len(par_verdict.results) :
                  par_verdict.results[q] = seq_verdict.results[p]
        /\ Len(par_verdict.results) = Len(registry)

C29_Witness ==
    /\ mpc = "done"
    /\ ~passed(par_verdict)
    /\ ~passed(seq_verdict)
    /\ Len(seq_verdict.results) < Len(par_verdict.results)
    /\ seq_verdict.results[1].filter_name # par_verdict.results[1].filter_name

\* C28: job text acquisition takes the input as an existing file's path
\* first, then as an http(s) URL, then as raw text; a bot-protection block
\* while fetching the URL leads to manual multi-line input instead of a
\* failure, and any other scraping error becomes a command error.
C28_JobTextResolution ==
    cpc \in {"returned", "raised"} =>
        /\ path_kind = "file" =>
              /\ cli_result = [kind |-> "return", source |-> "file",
                               text |-> "file text"]
              /\ scrapeCalls = 0
        /\ (path_kind \in {"missing", "name too long"}
                /\ job_input.scheme \in {"http://", "https://"}) =>
              /\ scrapeCalls = 1
              /\ scrape_outcome = "ok" =>
                    (cli_result.kind = "return"
                        /\ cli_result.source = "scrape")
              /\ scrape_outcome = "CloudflareBlockedError" =>
                    /\ launched
                    /\ readCalls > 0
                    /\ \/ cli_result.kind = "return"
                             /\ cli_result.source = "manual"
                       \/ cli_result =
                             [kind |-> "raise",
                              exc |-> "ClickException: No job description provided"]
              /\ scrape_outcome = "ScrapingError" =>
                    cli_result = [kind |-> "raise",
                                  exc |-> "ClickException: scraping error"]
        /\ (path_kind \in {"missing", "name too long"}
                /\ job_input.scheme \notin {"http://", "https://"}) =>
              /\ cli_result.kind = "return"
              /\ cli_result.source = "raw"
              /\ cli_result.text = job_input
              /\ scrapeCalls = 0

\* C31: a sequential-mode verdict that passes holds exactly one result for
\* every registered evaluator: an evaluator is skipped only in a pass whose
\* verdict fails.
C31_PassingVerdictIsComplete ==
    (~parallel /\ pc \in {"observer", "decide"} /\ Rendered
        /\ AllPass(validation.results)) =>
        /\ Len(validation.results) = Len(registry)
        /\ Len(invoked) = Len(registry)
        /\ \A j \in 1..Len(registry) :
              Cardinality({ p \in 1..Len(validation.results) :
                  validation.results[p].filter_name = registry[j].name }) = 1

C31_Witness ==
    /\ ~parallel
    /\ pc = "decide"
    /\ Rendered
    /\ AllPass(validation.results)
    /\ Len(validation.results) = Len(registry)
    /\ \E j \in 1..Len(registry) : registry[j].priority >= 100
    /\ \E j \in 1..Len(registry) : registry[j].priority < 100

\* C32: whenever optimize_for_job returns normally, the candidate and the
\* verdict it returns are both present, for every max_iterations the caller
\* can pass, 0 and negative values included.
C32_ReturnsCandidateAndVerdict ==
    pc = "returned" =>
        /\ returned.optimized # NoneValue
        /\ returned.validation # NoneValue
\* C33: the optimize command writes the output file and saves a record exactly
\* when the candidate that optimize_for_job returned carries rendered bytes,
\* whatever the verdict says: with the bytes and a failing verdict the file
\* and the record are produced after the warning; without the bytes the command
\* ends in an error with no file and no record.
FinalHasBinary ==
    /\ returned.optimized # NoneValue
    /\ returned.optimized.pdf_bytes # None

C33_SavedIffFinalBinary ==
    (pc = "returned" /\ cmd_result # NoneValue) =>
        /\ (output_file # None) <=> FinalHasBinary
        /\ (saved_record # NoneValue) <=> FinalHasBinary
        /\ FinalHasBinary =>
              /\ cmd_result.kind = "exit"
              /\ output_file = returned.optimized.pdf_bytes
              /\ warned <=> ~AllPass(returned.validation.results)
        /\ ~FinalHasBinary => cmd_result.kind = "raise"

C33_Witness ==
    /\ pc = "returned"
    /\ cmd_result # NoneValue
    /\ FinalHasBinary
    /\ ~AllPass(returned.validation.results)
    /\ warned
    /\ output_file # None
    /\ saved_record # NoneValue

\* C34: what is carried forward as the next iteration's previous attempt is
\* the representation the renderer was given in this iteration: at the rewrite
\* step of an iteration after the first, when the previous candidate was
\* rendered, the context's last attempt is that candidate's render input.
C34_CarriedIsRendered ==
    (pc = "rewrite" /\ i > 0 /\ Rendered) =>
        ctx.last_attempt = RenderInput(optimized)

\* C35: manual multi-line reading ends at the second empty line in a row or
\* at the end of input, whichever comes first; the returned text runs from the
\* first to the last line holding something other than white space among the
\* lines read before that point, single empty lines between them included;
\* and when no such line was read the command ends with a ClickException
\* instead of returning an empty text.
StopPoints ==
    { n \in 2..Len(stdin) : stdin[n] = "" /\ stdin[n - 1] = "" }
        \cup {Len(stdin) + 1}

StopAt == CHOOSE n \in StopPoints : \A q \in StopPoints : n <= q

Inked == { n \in 1..(StopAt - 1) : stdin[n] \notin {"", " "} }

FirstInked == CHOOSE n \in Inked : \A q \in Inked : n <= q

LastInked == CHOOSE n \in Inked : \A q \in Inked : q <= n

ManualDone == readCalls > 0 /\ cpc \in {"returned", "raised"}

C35_ManualInputAtRest ==
    ManualDone =>
        /\ readCalls = StopAt
        /\ lines = SubSeq(stdin, 1, StopAt - 1)
        /\ Inked # {} =>
              cli_result = [kind |-> "return", source |-> "manual",
                            text |-> SubSeq(stdin, FirstInked, LastInked)]
        /\ Inked = {} =>
              cli_result =
                  [kind |-> "raise",
                   exc |-> "ClickException: No job description provided"]

C35_ManualInput ==
    /\ [](C35_ManualInputAtRest)
    /\ (cpc = "manual") ~> ManualDone

C35_Witness ==
    /\ ManualDone
    /\ cli_result.kind = "return"
    /\ \E n \in 2..(Len(cli_result.text) - 1) :
          /\ cli_result.text[n] = ""
          /\ cli_result.text[n - 1] # ""
          /\ cli_result.text[n + 1] # ""

====
